---- MODULE Spec2Model ----
(***************************************************************************)
(* Entity-graph-to-script compiler of ob-poc: the ownership chain          *)
(* resolvers (scripts/gleif_extract_allianz.py, gleif_allianz_chain.py),   *)
(* the full ETL generator (scripts/generate_allianz_full_dsl.py) and the   *)
(* CSV-to-DSL generator (data/seed/allianzgi/csv_to_dsl.py).               *)
(*                                                                         *)
(* A Python str is a sequence of one-character strings.  Every program is  *)
(* a record-valued variable whose fields carry the names of the program's  *)
(* local variables; `pc` is the position in the function body.             *)
(***************************************************************************)
EXTENDS Integers, Sequences, FiniteSets, TLC

VARIABLES
    etl,    \* generate_allianz_full_dsl.main
    csv,    \* csv_to_dsl.generate_dsl
    walk,   \* GLEIFExtractor.trace_ownership_chain / trace_parent_chain
    esc,    \* escape applied to one display name
    twice,  \* two compilations of the same input, for comparison
    slug,   \* slugify applied to one text
    pager,  \* one call of get_direct_children or get_managed_funds
    pair    \* two GLEIFExtractor instances walking at the same time

vars == <<etl, csv, walk, esc, twice, slug, pager, pair>>

Idle == [pc |-> "idle"]

----------------------------------------------------------------------------
(* Characters and strings                                                  *)

LowerCase == <<"a","b","c","d","e","f","g","h","i","j","k","l","m",
               "n","o","p","q","r","s","t","u","v","w","x","y","z">>
UpperCase == <<"A","B","C","D","E","F","G","H","I","J","K","L","M",
               "N","O","P","Q","R","S","T","U","V","W","X","Y","Z">>
Digits == <<"0","1","2","3","4","5","6","7","8","9">>
HexDigits == <<"0","1","2","3","4","5","6","7","8","9","a","b","c","d","e","f">>

QUOTE == "\""
NEWLINE == "\n"
BACKSLASH == "\\"
SPACE == " "

Range(s) == {s[i] : i \in 1..Len(s)}

Min(a, b) == IF a < b THEN a ELSE b

IsLowerAlnum(c) == c \in Range(LowerCase) \cup Range(Digits)

\* str.lower() on one character
ToLower(c) ==
    IF c \in Range(UpperCase)
    THEN LowerCase[CHOOSE i \in 1..Len(UpperCase) : UpperCase[i] = c]
    ELSE c

Lower(s) == [i \in 1..Len(s) |-> ToLower(s[i])]

\* str.strip(chars): drop the leading and trailing characters in `chars`
RECURSIVE LStrip(_, _)
LStrip(s, chars) ==
    IF s # <<>> /\ Head(s) \in chars THEN LStrip(Tail(s), chars) ELSE s

RECURSIVE RStrip(_, _)
RStrip(s, chars) ==
    IF s # <<>> /\ s[Len(s)] \in chars
    THEN RStrip(SubSeq(s, 1, Len(s) - 1), chars)
    ELSE s

Strip(s, chars) == RStrip(LStrip(s, chars), chars)

Whitespace == {SPACE, NEWLINE}

\* str.replace(old, new) for a one-character `old`
RECURSIVE Replace(_, _, _)
Replace(s, old, new) ==
    IF s = <<>> THEN <<>>
    ELSE (IF Head(s) = old THEN new ELSE <<Head(s)>>) \o Replace(Tail(s), old, new)

\* re.sub(r"[^a-z0-9]+", "_", s): every maximal run of other characters
\* becomes one underscore
RECURSIVE SubNonAlnum(_, _)
SubNonAlnum(s, inRun) ==
    IF s = <<>> THEN <<>>
    ELSE IF IsLowerAlnum(Head(s)) THEN <<Head(s)>> \o SubNonAlnum(Tail(s), FALSE)
    ELSE IF inRun THEN SubNonAlnum(Tail(s), TRUE)
    ELSE <<"_">> \o SubNonAlnum(Tail(s), TRUE)

\* Position of a character in a fixed table of the characters the model uses
CharTable == LowerCase \o UpperCase \o Digits \o <<"_", "-", SPACE, QUOTE, NEWLINE, BACKSLASH>>

Ord(c) == CHOOSE i \in 1..Len(CharTable) : CharTable[i] = c

HashModulus == 65521

RECURSIVE PolyHash(_, _)
PolyHash(s, h) ==
    IF s = <<>> THEN h
    ELSE PolyHash(Tail(s), ((h * 31) + Ord(Head(s))) % HashModulus)

\* hashlib.sha1(text.encode()).hexdigest()[:n]: n hexadecimal digits that are
\* a function of the text alone.  SHA-1 itself is replaced by a polynomial
\* hash with the same output shape.
Sha1Hex(text, n) ==
    LET h == PolyHash(text, 7)
    IN  [j \in 1..n |-> HexDigits[((h + (7 * j) * ((h % 13) + 1)) % 16) + 1]]

SlugMaxLen == 30

\* slugify without the branch that shortens a long text
slugifyUntruncated(original, max_len) ==
    LET text == Strip(SubNonAlnum(Lower(original), FALSE), {"_"})
    IN  IF text = <<>>
        THEN <<"e","n","t","i","t","y","_">> \o Sha1Hex(original, 10)
        ELSE text

slugify(original, max_len) ==
    LET text == Strip(SubNonAlnum(Lower(original), FALSE), {"_"})
    IN  IF text = <<>>
        THEN <<"e","n","t","i","t","y","_">> \o Sha1Hex(original, 10)
        ELSE IF Len(text) > max_len
        THEN SubSeq(text, 1, max_len - 7) \o <<"_">> \o Sha1Hex(original, 6)
        ELSE text

\* escape(s) of generate_allianz_full_dsl.py; None is the model value NoneStr
NoneStr == <<"None">>

escape(s) ==
    IF s = NoneStr THEN <<>>
    ELSE Strip(Replace(Replace(s, QUOTE, <<BACKSLASH, QUOTE>>), NEWLINE, <<SPACE>>),
               Whitespace)

\* safe_name of gleif_extract_allianz.main: quotes only
safe_name(s) == Replace(s, QUOTE, <<BACKSLASH, QUOTE>>)

----------------------------------------------------------------------------
(* The script: `lines` is a sequence of items, one per command (the lines  *)
(* of one parenthesised command are one item) or comment line.             *)

NoBinding == <<>>

Cmd(verb, name, binding, refs, key) ==
    [kind |-> "cmd", verb |-> verb, name |-> name, as |-> binding,
     refs |-> refs, key |-> key, n |-> 0]

Comment(text, n) ==
    [kind |-> "comment", verb |-> text, name |-> <<>>, as |-> NoBinding,
     refs |-> <<>>, key |-> <<>>, n |-> n]

EmptyDict == [k \in {} |-> <<>>]

Put(d, k, v) == [x \in (DOMAIN d) \cup {k} |-> IF x = k THEN v ELSE d[x]]

\* dict.get(k): None is the empty binding here (no binding is ever empty)
Get(d, k) == IF k \in DOMAIN d THEN d[k] ELSE NoBinding

IsCmd(item, verb) == item.kind = "cmd" /\ item.verb = verb

----------------------------------------------------------------------------
(* generate_allianz_full_dsl.py: inputs                                    *)

AgiName == <<"A","l","l","i","a","n","z"," ","G","l","o","b","a","l"," ",
             "I","n","v","e","s","t","o","r","s"," ","G","m","b","H">>

MancoBinding == <<"a","l","l","i","a","n","z","_","g","l","o","b","a","l","_",
                  "i","n","v","e","s","t","o","r","s","_","g","m","b","h">>

CbuBinding == <<"c","b","u","_","a","g","i">>

Region == <<"L","U">>

\* The longest ownership chain of an input file
MaxChain == 2

\* By how many share classes the longest list exceeds the cap
Overflow == 25

ShareClassCap == 50

Leis == {"LEI1", "LEI2"}
OtherLei == "LEI9"

EntityNames == {AgiName, <<"A"," ","b">>, <<"a","-","b">>}

Entities == [lei : Leis, legal_name : EntityNames]

SeqsUpTo(S, n) == UNION {[1..k -> S] : k \in 0..n}

Relationships == [child_lei : Leis \cup {OtherLei}, parent_lei : Leis \cup {OtherLei}]

NoGleif == [present |-> FALSE]

GleifFiles ==
    {NoGleif} \cup
    { [present |-> TRUE, ownership_chain |-> c, subsidiaries |-> s, relationships |-> r] :
        c \in SeqsUpTo(Entities, MaxChain),
        s \in SeqsUpTo(Entities, 1),
        r \in SeqsUpTo(Relationships, 1) }

\* "LU" followed by three decimal digits
IsinStr(k) ==
    <<"L","U", Digits[((k \div 100) % 10) + 1], Digits[((k \div 10) % 10) + 1],
      Digits[(k % 10) + 1]>>

\* A list of n share classes with ISINs base+1 .. base+n; the ones at the
\* positions in `missing` carry no ISIN
ShareClassList(n, missing, base) ==
    [i \in 1..n |-> [isin |-> IF i \in missing THEN <<>> ELSE IsinStr(base + i),
                     shareClassName |-> <<"A">>]]

ShareClassCounts == {0, ShareClassCap, ShareClassCap + 1, ShareClassCap + Overflow}

FundHeads ==
    { [fundName |-> <<"F">>, legalStructure |-> <<>>],
      [fundName |-> <<"G">>, legalStructure |-> <<"S","I","C","A","V">>],
      [fundName |-> <<>>, legalStructure |-> <<>>] }

FundsWith(bases) ==
    { [fundName |-> h.fundName, legalStructure |-> h.legalStructure,
       region |-> Region, shareClasses |-> ShareClassList(n, m, b)] :
        h \in FundHeads, n \in ShareClassCounts, m \in {{}, {1}}, b \in bases }

FundLists ==
    {<<>>} \cup {<<f>> : f \in FundsWith({0})}
           \cup {<<f, g>> : f \in FundsWith({0}), g \in FundsWith({0, 100})}

DefaultGleif ==
    [present |-> TRUE,
     ownership_chain |-> <<[lei |-> "LEI1", legal_name |-> AgiName]>>,
     subsidiaries |-> <<>>, relationships |-> <<>>]

\* A GLEIF file with a chain of two, a subsidiary and a relationship
FullGleif ==
    [present |-> TRUE,
     ownership_chain |-> <<[lei |-> "LEI1", legal_name |-> AgiName],
                           [lei |-> "LEI2", legal_name |-> <<"A"," ","b">>]>>,
     subsidiaries |-> <<[lei |-> OtherLei, legal_name |-> <<"a","-","b">>]>>,
     relationships |-> <<[child_lei |-> "LEI1", parent_lei |-> "LEI2"]>>]

\* A key that an entity of the file does not have
MissingLei == "<missing>"

MissingName == <<"<missing>">>

\* Entities lacking their identifier or their name
MalformedEntities ==
    {[lei |-> MissingLei, legal_name |-> AgiName], [lei |-> "LEI2", legal_name |-> MissingName]}

\* GLEIF files with one malformed entity, in the chain or among the subsidiaries
MalformedGleifFiles ==
    { [present |-> TRUE, ownership_chain |-> DefaultGleif.ownership_chain \o c,
       subsidiaries |-> s, relationships |-> <<>>] :
        c \in SeqsUpTo(MalformedEntities, 1), s \in SeqsUpTo(MalformedEntities, 1) }

\* The inputs of one run: every GLEIF file with no funds, and every fund list
\* with the default GLEIF file, the full one or none
EtlInputs ==
    { <<g, <<>> >> : g \in GleifFiles \cup MalformedGleifFiles } \cup
    { <<g, f>> : g \in {NoGleif, DefaultGleif, FullGleif}, f \in FundLists }

\* datetime.now(): the second compilation of an input happens after the first
Now == IF twice.pc = "second" THEN 2 ELSE 1

----------------------------------------------------------------------------
(* generate_allianz_full_dsl.main                                          *)

Truthy(gleif) == gleif.present

ChainLen(gleif) == IF Truthy(gleif) THEN Len(gleif.ownership_chain) ELSE 0

SubsLen(gleif) == IF Truthy(gleif) THEN Len(gleif.subsidiaries) ELSE 0

RelsLen(gleif) == IF Truthy(gleif) THEN Len(gleif.relationships) ELSE 0

InitEtlRun(input) ==
    [pc |-> "start", gleif |-> input[1], funds |-> input[2], lines |-> <<>>,
     lei_bindings |-> EmptyDict, i |-> 0, unique_funds |-> <<>>,
     fund_count |-> 0, share_class_count |-> 0, stdout |-> <<>>]

\* entity["lei"] or entity["legal_name"] raises KeyError
Malformed(entity) == entity.lei = MissingLei \/ entity.legal_name = MissingName

\* The exception leaves main: the traceback is printed, nothing is written
Abort(run) == [run EXCEPT !.stdout = Append(@, "Traceback: KeyError"), !.pc = "aborted"]

\* One entity.ensure-limited-company command and its entry in lei_bindings
EntityCommand(entity) ==
    LET name == escape(entity.legal_name)
    IN  Cmd("entity.ensure-limited-company", name, slugify(name, SlugMaxLen), <<>>, <<>>)

\* Lines 72-92: the header and the banner of phase 1
EtlHeader ==
    /\ etl.pc = "start"
    /\ etl' = [etl EXCEPT
            !.lines = <<Comment("Generated", Now),
                        Comment("GLEIF entities", ChainLen(etl.gleif)),
                        Comment("Subsidiaries", SubsLen(etl.gleif)),
                        Comment("Funds", Len(etl.funds)),
                        Comment("PHASE 1", 0)>>
                     \o (IF Truthy(etl.gleif) THEN <<>> ELSE <<Comment("PHASE 2", 0)>>),
            !.pc = IF Truthy(etl.gleif) THEN "chain" ELSE "rels",
            !.i = IF Truthy(etl.gleif) THEN ChainLen(etl.gleif) ELSE 1]
    /\ UNCHANGED <<csv, walk, esc, twice, slug, pager, pair>>

\* Lines 99-115: one iteration over reversed(gleif["ownership_chain"])
EtlChainEntity ==
    /\ etl.pc = "chain" /\ etl.i >= 1
    /\ LET entity == etl.gleif.ownership_chain[etl.i]
           cmd == EntityCommand(entity)
       IN  etl' = IF Malformed(entity) THEN Abort(etl)
                  ELSE [etl EXCEPT
                          !.lei_bindings = Put(@, entity.lei, cmd.as),
                          !.lines = Append(@, cmd),
                          !.i = @ - 1]
    /\ UNCHANGED <<csv, walk, esc, twice, slug, pager, pair>>

\* Lines 118-119: the chain is exhausted
EtlChainDone ==
    /\ etl.pc = "chain" /\ etl.i = 0
    /\ etl' = [etl EXCEPT
           !.lines = IF etl.gleif.subsidiaries # <<>>
                     THEN Append(@, Comment("Subsidiaries banner", 0)) ELSE @,
           !.pc = "subs", !.i = 1]
    /\ UNCHANGED <<csv, walk, esc, twice, slug, pager, pair>>

\* Lines 120-134: one iteration over gleif["subsidiaries"]
EtlSubsidiary ==
    /\ etl.pc = "subs" /\ etl.i <= Len(etl.gleif.subsidiaries)
    /\ LET sub == etl.gleif.subsidiaries[etl.i]
           cmd == EntityCommand(sub)
       IN  etl' = IF Malformed(sub) THEN Abort(etl)
                  ELSE [etl EXCEPT
                          !.lei_bindings = Put(@, sub.lei, cmd.as),
                          !.lines = Append(@, cmd),
                          !.i = @ + 1]
    /\ UNCHANGED <<csv, walk, esc, twice, slug, pager, pair>>

EtlSubsDone ==
    /\ etl.pc = "subs" /\ etl.i > Len(etl.gleif.subsidiaries)
    /\ etl' = [etl EXCEPT !.lines = Append(@, Comment("PHASE 2", 0)),
                          !.pc = "rels", !.i = 1]
    /\ UNCHANGED <<csv, walk, esc, twice, slug, pager, pair>>

\* Lines 145-158: one ownership relationship; it is written only when both
\* LEIs have a binding, and nothing is printed or logged otherwise
RelationshipLines(rel, lei_bindings) ==
    LET child_binding == Get(lei_bindings, rel.child_lei)
        parent_binding == Get(lei_bindings, rel.parent_lei)
    IN  IF child_binding # NoBinding /\ parent_binding # NoBinding
        THEN <<Cmd("ubo.add-ownership", <<>>, NoBinding,
                   <<parent_binding, child_binding>>, <<>>)>>
        ELSE <<>>

EtlRelationship ==
    /\ etl.pc = "rels" /\ etl.i <= RelsLen(etl.gleif)
    /\ etl' = [etl EXCEPT
           !.lines = @ \o RelationshipLines(etl.gleif.relationships[etl.i], etl.lei_bindings),
           !.i = @ + 1]
    /\ UNCHANGED <<csv, walk, esc, twice, slug, pager, pair>>

\* Lines 168-179: the CBU and the role of the management company
CbuLines ==
    <<Cmd("cbu.ensure", <<>>, CbuBinding, <<>>, <<>>),
      Cmd("cbu.assign-role", <<"M","A","N","C","O">>, NoBinding,
          <<CbuBinding, MancoBinding>>, <<>>)>>

\* Lines 190-196: funds are kept once per (fundName, _region), empty names dropped
RECURSIVE DedupeFunds(_, _)
DedupeFunds(funds, seen_funds) ==
    IF funds = <<>> THEN <<>>
    ELSE LET fund == Head(funds)
             key == <<fund.fundName, fund.region>>
         IN  IF key \notin seen_funds /\ key[1] # <<>>
             THEN <<fund>> \o DedupeFunds(Tail(funds), seen_funds \cup {key})
             ELSE DedupeFunds(Tail(funds), seen_funds)

EtlCbu ==
    /\ etl.pc = "rels" /\ etl.i > RelsLen(etl.gleif)
    /\ etl' = [etl EXCEPT
           !.lines = @ \o <<Comment("PHASE 3", 0)>> \o CbuLines
                       \o <<Comment("PHASE 4", Len(etl.funds))>>,
           !.unique_funds = DedupeFunds(etl.funds, {}),
           !.pc = "funds", !.i = 1]
    /\ UNCHANGED <<csv, walk, esc, twice, slug, pager, pair>>

\* The slice forgotten: every share class is written
AllShareClasses(share_classes) == share_classes

\* Line 235: share_classes[:50]
FirstShareClasses(share_classes) ==
    SubSeq(share_classes, 1, Min(Len(share_classes), ShareClassCap))

\* Lines 235-249: one command per share class that has an ISIN
RECURSIVE ShareClassCommands(_, _)
ShareClassCommands(scs, binding) ==
    IF scs = <<>> THEN <<>>
    ELSE LET sc == Head(scs)
         IN  (IF sc.isin # <<>>
              THEN <<Cmd("fund.ensure-share-class", escape(sc.shareClassName),
                         slugify(sc.isin, SlugMaxLen), <<binding>>, sc.isin)>>
              ELSE <<>>) \o ShareClassCommands(Tail(scs), binding)

\* Lines 251-253: the note on the share classes left out
TruncationNote(share_classes) ==
    IF Len(share_classes) > ShareClassCap
    THEN <<Comment("more share classes (truncated)", Len(share_classes) - ShareClassCap)>>
    ELSE <<>>

FundVerb(fund) ==
    IF fund.legalStructure \in {<<"S","I","C","A","V">>, <<"O","E","I","C">>}
    THEN "fund.ensure-umbrella" ELSE "fund.ensure-subfund"

\* The role assignment written after the share classes
FundLinesRoleLast(fund) ==
    LET fund_name == escape(fund.fundName)
        binding == slugify(fund_name \o <<"_">> \o fund.region, SlugMaxLen)
    IN  <<Cmd(FundVerb(fund), fund_name, binding, <<>>, <<>>)>>
        \o ShareClassCommands(FirstShareClasses(fund.shareClasses), binding)
        \o <<Cmd("cbu.assign-role", <<"F","U","N","D">>, NoBinding, <<CbuBinding, binding>>, <<>>)>>
        \o TruncationNote(fund.shareClasses)

\* Lines 202-253: everything written for one fund
FundLines(fund) ==
    LET fund_name == escape(fund.fundName)
        binding == slugify(fund_name \o <<"_">> \o fund.region, SlugMaxLen)
    IN  <<Cmd(FundVerb(fund), fund_name, binding, <<>>, <<>>),
          Cmd("cbu.assign-role", <<"F","U","N","D">>, NoBinding, <<CbuBinding, binding>>, <<>>)>>
        \o ShareClassCommands(FirstShareClasses(fund.shareClasses), binding)
        \o TruncationNote(fund.shareClasses)

\* The counter raised for every share class, written or not
CountedAll(scs) == Len(scs)

\* Line 249: share_class_count += 1, inside `if isin:`
Counted(scs) == Cardinality({k \in 1..Len(scs) : scs[k].isin # <<>>})

EtlFund ==
    /\ etl.pc = "funds" /\ etl.i <= Len(etl.unique_funds)
    /\ LET fund == etl.unique_funds[etl.i]
       IN  etl' = [etl EXCEPT
               !.lines = @ \o FundLines(fund),
               !.fund_count = @ + 1,
               !.share_class_count = @ + Counted(FirstShareClasses(fund.shareClasses)),
               !.i = @ + 1]
    /\ UNCHANGED <<csv, walk, esc, twice, slug, pager, pair>>

\* Lines 258-275: the summary block, and what is printed
EtlSummary ==
    /\ etl.pc = "funds" /\ etl.i > Len(etl.unique_funds)
    /\ etl' = [etl EXCEPT
           !.lines = @ \o <<Comment("Ownership chain entities", ChainLen(etl.gleif)),
                            Comment("Subsidiaries", SubsLen(etl.gleif)),
                            Comment("Funds created", etl.fund_count),
                            Comment("Share classes created", etl.share_class_count)>>,
           !.stdout = @ \o <<"[ok] Generated", "Ownership entities", "Subsidiaries",
                             "Funds", "Share classes", "Total lines">>,
           !.pc = "done"]
    /\ UNCHANGED <<csv, walk, esc, twice, slug, pager, pair>>

NextEtl ==
    \/ EtlHeader
    \/ EtlChainEntity
    \/ EtlChainDone
    \/ EtlSubsidiary
    \/ EtlSubsDone
    \/ EtlRelationship
    \/ EtlCbu
    \/ EtlFund
    \/ EtlSummary

InitEtl ==
    /\ \E input \in EtlInputs : etl = InitEtlRun(input)
    /\ csv = Idle /\ walk = Idle /\ esc = Idle /\ twice = Idle /\ slug = Idle /\ pager = Idle /\ pair = Idle

SpecEtl == InitEtl /\ [][NextEtl]_vars

----------------------------------------------------------------------------
(* Properties of the full ETL script                                       *)

EtlDone == etl.pc = "done"

CmdIndices(lines, verbs) ==
    {i \in 1..Len(lines) : lines[i].kind = "cmd" /\ lines[i].verb \in verbs}

FundVerbs == {"fund.ensure-umbrella", "fund.ensure-subfund"}

\* The index in `lines` of the k-th fund creation command
FundStart(lines, k) ==
    CHOOSE p \in CmdIndices(lines, FundVerbs) :
        Cardinality({q \in CmdIndices(lines, FundVerbs) : q < p}) = k - 1

\* The indices of what follows the k-th fund creation command, up to the next one
FundBlock(lines, k) ==
    LET starts == CmdIndices(lines, FundVerbs)
        from == FundStart(lines, k)
    IN  {i \in (from + 1)..Len(lines) : ~\E q \in starts : from < q /\ q <= i}

IsTruncationNote(item) ==
    item.kind = "comment" /\ item.verb = "more share classes (truncated)"

\* The binding the generator derives for a fund
FundBinding(fund) == slugify(escape(fund.fundName) \o <<"_">> \o fund.region, SlugMaxLen)

\* C1: every binding referenced by a command of the script was bound by the
\* ':as' clause of a strictly earlier command of the same script.
ForwardReferencesBound ==
    \A k \in 1..Len(etl.lines) :
        \A r \in Range(etl.lines[k].refs) :
            \E j \in 1..(k - 1) :
                etl.lines[j].kind = "cmd" /\ etl.lines[j].as = r

\* C2: binding allocation is injective on identifiers: two LEIs that hold the
\* same binding in the binding table are the same LEI.
BindingsInjective ==
    \A l1, l2 \in DOMAIN etl.lei_bindings :
        etl.lei_bindings[l1] = etl.lei_bindings[l2] => l1 = l2

\* C5 as stated: every input fund with more than 50 share classes gets exactly
\* 50 share-class commands.
EveryLongFundGetsFifty ==
    EtlDone =>
        \A j \in 1..Len(etl.funds) :
            Len(etl.funds[j].shareClasses) > ShareClassCap =>
                Cardinality({i \in CmdIndices(etl.lines, {"fund.ensure-share-class"}) :
                                etl.lines[i].refs = <<FundBinding(etl.funds[j])>>})
                    = ShareClassCap

\* C5 as amended: every emitted fund (the first of its name and region, with
\* a non-empty name) gets one share-class command for each of its first 50
\* share classes that has an ISIN, one truncation note recording n - 50 when
\* it holds n > 50 share classes, and no truncation note otherwise.
TruncationPerEmittedFund ==
    EtlDone =>
        /\ Cardinality(CmdIndices(etl.lines, FundVerbs)) = Len(etl.unique_funds)
        /\ \A k \in 1..Len(etl.unique_funds) :
            LET scs == etl.unique_funds[k].shareClasses
                n == Len(scs)
                block == FundBlock(etl.lines, k)
                notes == {i \in block : IsTruncationNote(etl.lines[i])}
            IN  /\ Cardinality({i \in block : IsCmd(etl.lines[i], "fund.ensure-share-class")})
                     = Cardinality({i \in 1..Min(n, ShareClassCap) : scs[i].isin # <<>>})
                /\ n > ShareClassCap =>
                     /\ Cardinality(notes) = 1
                     /\ \A i \in notes : etl.lines[i].n = n - ShareClassCap
                /\ n <= ShareClassCap => notes = {}

\* The stated case: 75 share classes, all with an ISIN, give 50 commands and
\* a note of 25
SeventyFiveTruncated ==
    /\ EtlDone
    /\ \E k \in 1..Len(etl.unique_funds) :
        LET scs == etl.unique_funds[k].shareClasses
            block == FundBlock(etl.lines, k)
        IN  /\ Len(scs) = ShareClassCap + Overflow
            /\ \A i \in 1..Len(scs) : scs[i].isin # <<>>
            /\ Cardinality({i \in block : IsCmd(etl.lines[i], "fund.ensure-share-class")})
                 = ShareClassCap
            /\ \E i \in block : IsTruncationNote(etl.lines[i]) /\ etl.lines[i].n = Overflow

\* The LEIs that have an emitted entity
EmittedLeis ==
    IF Truthy(etl.gleif)
    THEN {e.lei : e \in Range(etl.gleif.ownership_chain) \cup Range(etl.gleif.subsidiaries)}
    ELSE {}

Dangling(rel) == rel.child_lei \notin EmittedLeis \/ rel.parent_lei \notin EmittedLeis

\* What the run reports about dropped relationships, on any channel
DropDiagnostics ==
    {i \in 1..Len(etl.stdout) : etl.stdout[i] = "dropped relationship"}

\* C6: a relationship with an endpoint outside the emitted entities gives no
\* ownership command and exactly one diagnostic entry.
DanglingDroppedWithDiagnostic ==
    EtlDone =>
        LET rels == IF Truthy(etl.gleif) THEN etl.gleif.relationships ELSE <<>>
        IN  /\ Cardinality(CmdIndices(etl.lines, {"ubo.add-ownership"}))
                 = Cardinality({i \in 1..Len(rels) : ~Dangling(rels[i])})
            /\ Cardinality(DropDiagnostics)
                 = Cardinality({i \in 1..Len(rels) : Dangling(rels[i])})

\* C10: the script holds at most one creation command per identifier: no two
\* share-class commands carry the same ISIN, and there are no more entity
\* commands than distinct LEIs.
OneCreationPerIdentifier ==
    EtlDone =>
        /\ \A i, j \in CmdIndices(etl.lines, {"fund.ensure-share-class"}) :
               etl.lines[i].key = etl.lines[j].key => i = j
        /\ Cardinality(CmdIndices(etl.lines, {"entity.ensure-limited-company"}))
             <= Cardinality(EmittedLeis)

\* C13: the entry of the binding table for an identifier never changes after
\* it is first written: every step leaves the binding of every LEI that has
\* one as it is.
BindingEntriesStable ==
    [][\A lei \in DOMAIN etl.lei_bindings :
           etl'.lei_bindings[lei] = etl.lei_bindings[lei]]_vars

\* The phase a command belongs to
Phase(cmd) ==
    CASE cmd.verb = "entity.ensure-limited-company" -> 1
      [] cmd.verb = "ubo.add-ownership" -> 2
      [] cmd.verb = "cbu.ensure" -> 3
      [] cmd.verb = "cbu.assign-role" /\ cmd.refs[2] = MancoBinding -> 3
      [] cmd.verb \in FundVerbs -> 4
      [] cmd.verb = "cbu.assign-role" -> 5
      [] cmd.verb = "fund.ensure-share-class" -> 6

Commands(lines) == SelectSeq(lines, LAMBDA item : item.kind = "cmd")

\* The entity commands of a GLEIF file: the chain from its last element to its
\* first, then the subsidiaries
ExpectedEntities(gleif) ==
    IF Truthy(gleif)
    THEN [i \in 1..ChainLen(gleif) |->
             EntityCommand(gleif.ownership_chain[ChainLen(gleif) + 1 - i])]
         \o [i \in 1..SubsLen(gleif) |-> EntityCommand(gleif.subsidiaries[i])]
    ELSE <<>>

\* The fund a command of phases 5 and 6 refers to
FundRef(cmd) == cmd.refs[Len(cmd.refs)]

PhasesOrdered(cmds, entities) ==
    /\ SubSeq(cmds, 1, Len(entities)) = entities
    /\ \A p \in 1..(Len(cmds) - 1) :
           Phase(cmds[p + 1]) <= 3 => Phase(cmds[p]) <= Phase(cmds[p + 1])
    /\ Cardinality({p \in 1..Len(cmds) : cmds[p].verb = "cbu.ensure"}) = 1
    /\ \A p \in 1..Len(cmds) :
           cmds[p].verb = "cbu.ensure" =>
               /\ p < Len(cmds)
               /\ cmds[p + 1].verb = "cbu.assign-role"
               /\ cmds[p + 1].refs = <<cmds[p].as, MancoBinding>>
    /\ \A p \in 1..Len(cmds) :
           /\ Phase(cmds[p]) = 4 =>
                  /\ p < Len(cmds)
                  /\ Phase(cmds[p + 1]) = 5
                  /\ cmds[p + 1].refs = <<CbuBinding, cmds[p].as>>
           /\ Phase(cmds[p]) = 5 => Phase(cmds[p - 1]) = 4
           /\ Phase(cmds[p]) = 6 =>
                  /\ Phase(cmds[p - 1]) \in {5, 6}
                  /\ FundRef(cmds[p]) = FundRef(cmds[p - 1])

\* C14: the commands of the finished script come in the fixed phase order:
\* the chain entities from apex to start, the subsidiaries, one CBU followed
\* by its role assignment, then for each fund its creation command, its role
\* assignment and its share classes; nothing of the first three phases comes
\* after a command of a later phase.
PhaseOrder ==
    EtlDone => PhasesOrdered(Commands(etl.lines), ExpectedEntities(etl.gleif))

\* A finished script with a chain of two, a subsidiary, a relationship and two
\* funds that have share classes
AllPhasesWritten ==
    /\ EtlDone
    /\ ChainLen(etl.gleif) = 2 /\ SubsLen(etl.gleif) = 1
    /\ CmdIndices(etl.lines, {"ubo.add-ownership"}) # {}
    /\ Len(etl.unique_funds) = 2
    /\ \A k \in 1..2 : etl.unique_funds[k].shareClasses # <<>>
    /\ etl.share_class_count > ShareClassCap

\* The entities of a GLEIF file in the order main reads them: the chain from
\* its last element to its first, then the subsidiaries
EntitiesRead(gleif) ==
    IF Truthy(gleif)
    THEN [i \in 1..ChainLen(gleif) |-> gleif.ownership_chain[ChainLen(gleif) + 1 - i]]
         \o gleif.subsidiaries
    ELSE <<>>

\* The pairs of records with the same key and different attributes: funds of
\* the same name and region, entities of the same LEI
FundConflicts ==
    {<<j, k>> \in (1..Len(etl.funds)) \X (1..Len(etl.funds)) :
        /\ j < k
        /\ etl.funds[j].fundName # <<>>
        /\ etl.funds[j].fundName = etl.funds[k].fundName
        /\ etl.funds[j].region = etl.funds[k].region
        /\ etl.funds[j] # etl.funds[k]}

EntityConflicts ==
    LET read == EntitiesRead(etl.gleif)
    IN  {<<j, k>> \in (1..Len(read)) \X (1..Len(read)) :
            j < k /\ read[j].lei = read[k].lei /\ read[j] # read[k]}

ConflictWarnings == {i \in 1..Len(etl.stdout) : etl.stdout[i] = "Warning: conflicting record"}

\* C24: at the end of a run the fund list holds, for every name and region,
\* the fund read first, the binding table holds for every LEI the binding of
\* the entity read first, and a warning is recorded when two records of the
\* same key differ.
FirstSeenWinsWithWarning ==
    EtlDone =>
        /\ \A k \in 1..Len(etl.unique_funds) :
               \E j \in 1..Len(etl.funds) :
                   /\ etl.unique_funds[k] = etl.funds[j]
                   /\ \A i \in 1..(j - 1) :
                          ~(etl.funds[i].fundName = etl.funds[j].fundName
                            /\ etl.funds[i].region = etl.funds[j].region)
        /\ LET read == EntitiesRead(etl.gleif)
           IN  \A k \in 1..Len(read) :
                   (\A i \in 1..(k - 1) : read[i].lei # read[k].lei)
                       => Get(etl.lei_bindings, read[k].lei) = EntityCommand(read[k]).as
        /\ FundConflicts \cup EntityConflicts # {} => ConflictWarnings # {}

\* The number recorded in the summary block (the last four comments of the
\* script) under the title
SummaryCount(lines, title) ==
    LET i == CHOOSE i \in (Len(lines) - 3)..Len(lines) :
                 lines[i].kind = "comment" /\ lines[i].verb = title
    IN  lines[i].n

\* The entity commands written before the banner of the subsidiaries (all of
\* them when there is no banner) and those written after it
ChainCommands(lines) ==
    {i \in CmdIndices(lines, {"entity.ensure-limited-company"}) :
        \A b \in 1..Len(lines) :
            (lines[b].kind = "comment" /\ lines[b].verb = "Subsidiaries banner") => i < b}

SubsidiaryCommands(lines) ==
    CmdIndices(lines, {"entity.ensure-limited-company"}) \ ChainCommands(lines)

\* C28: the four counts of the summary block of a finished script are the
\* numbers of commands in it: fund creations, share classes, entity commands
\* of the chain, entity commands of the subsidiaries.
SummaryCountsMatch ==
    EtlDone =>
        /\ SummaryCount(etl.lines, "Funds created")
             = Cardinality(CmdIndices(etl.lines, FundVerbs))
        /\ SummaryCount(etl.lines, "Share classes created")
             = Cardinality(CmdIndices(etl.lines, {"fund.ensure-share-class"}))
        /\ SummaryCount(etl.lines, "Ownership chain entities")
             = Cardinality(ChainCommands(etl.lines))
        /\ SummaryCount(etl.lines, "Subsidiaries")
             = Cardinality(SubsidiaryCommands(etl.lines))

\* A finished script with chain, subsidiary, two funds, and a share class that
\* was not written for want of an ISIN
AllCountsPositive ==
    /\ EtlDone
    /\ SummaryCount(etl.lines, "Ownership chain entities") = 2
    /\ SummaryCount(etl.lines, "Subsidiaries") = 1
    /\ SummaryCount(etl.lines, "Funds created") = 2
    /\ SummaryCount(etl.lines, "Share classes created") > 0
    /\ \E k \in 1..Len(etl.unique_funds) :
           etl.unique_funds[k].shareClasses # <<>>
           /\ etl.unique_funds[k].shareClasses[1].isin = <<>>

\* C23: no diagnostic (a truncation count, a dropped relationship, a cycle)
\* is ever an element of `lines`, the sequence written out as the script.
NoDiagnosticInScript ==
    \A i \in 1..Len(etl.lines) :
        /\ ~IsTruncationNote(etl.lines[i])
        /\ etl.lines[i].verb \notin {"dropped relationship", "Cycle detected"}

\* The malformed records of the input: entities lacking a key, funds without
\* a name, share classes without an ISIN
MalformedRecords ==
    LET entities == IF Truthy(etl.gleif)
                    THEN etl.gleif.ownership_chain \o etl.gleif.subsidiaries ELSE <<>>
    IN  Cardinality({i \in 1..Len(entities) : Malformed(entities[i])})
        + Cardinality({j \in 1..Len(etl.funds) : etl.funds[j].fundName = <<>>})
        + Cardinality({<<j, k>> \in (1..Len(etl.funds)) \X (1..(ShareClassCap + Overflow)) :
                          /\ k <= Len(etl.funds[j].shareClasses)
                          /\ etl.funds[j].shareClasses[k].isin = <<>>})

Warnings == {i \in 1..Len(etl.stdout) : etl.stdout[i] = "Warning: record skipped"}

\* C16: a malformed record never aborts the run, and the finished run has
\* recorded one warning for every malformed record of its input.
MalformedSkippedWithWarning ==
    /\ etl.pc # "aborted"
    /\ EtlDone => Cardinality(Warnings) = MalformedRecords

----------------------------------------------------------------------------
(* slugify applied to one text                                             *)

\* The most pieces a text is made of
MaxPieces == 3

\* Pieces of names: letters of both cases, digits, separators, quotes, and
\* two long pieces that together pass the length limit
Pieces ==
    { <<"A", "b">>, <<"9">>, <<"_">>, <<"-", SPACE>>, <<QUOTE>>,
      <<"A","l","l","i","a","n","z"," ","G","l","o","b","a","l"," ">>,
      <<"I","n","v","e","s","t","o","r","s"," ","G","m","b","H","-","2">> }

RECURSIVE Concat(_)
Concat(ps) == IF ps = <<>> THEN <<>> ELSE Head(ps) \o Concat(Tail(ps))

Texts == { Concat(ps) : ps \in SeqsUpTo(Pieces, MaxPieces) }

InitSlug ==
    /\ \E text \in Texts : slug = [pc |-> "text", text |-> text]
    /\ etl = Idle /\ csv = Idle /\ walk = Idle /\ esc = Idle /\ twice = Idle /\ pager = Idle /\ pair = Idle

\* binding = slugify(name), with the default max_len
Slugify ==
    /\ slug.pc = "text"
    /\ slug' = [pc |-> "binding", text |-> slug.text,
                binding |-> slugify(slug.text, SlugMaxLen)]
    /\ UNCHANGED <<etl, csv, walk, esc, twice, pager, pair>>

NextSlug == Slugify

SpecSlug == InitSlug /\ [][NextSlug]_vars

TokenChars == Range(LowerCase) \cup Range(Digits) \cup {"_"}

\* C17: the binding slugify returns is not empty, is at most max_len
\* characters long and holds only lower-case letters, digits and underscores;
\* a text without any letter or digit gets a name made from its hash.
BindingIsToken ==
    slug.pc = "binding" =>
        /\ slug.binding # <<>>
        /\ Len(slug.binding) <= SlugMaxLen
        /\ Range(slug.binding) \subseteq TokenChars
        /\ (\A i \in 1..Len(slug.text) : ~IsLowerAlnum(ToLower(slug.text[i])))
               => /\ Len(slug.binding) = 17
                  /\ SubSeq(slug.binding, 1, 7) = <<"e","n","t","i","t","y","_">>
                  /\ Range(SubSeq(slug.binding, 8, 17)) \subseteq Range(HexDigits)

\* A text longer than the limit whose binding was cut to exactly the limit
LongTextShortened ==
    /\ slug.pc = "binding"
    /\ Len(Strip(SubNonAlnum(Lower(slug.text), FALSE), {"_"})) > SlugMaxLen
    /\ Len(slug.binding) = SlugMaxLen

----------------------------------------------------------------------------
(* A display name written as a string literal, and read back               *)

\* The longest display name tried
MaxNameLen == 3

EscAlphabet == {QUOTE, NEWLINE, BACKSLASH, SPACE, "a"}

DisplayNames == SeqsUpTo(EscAlphabet, MaxNameLen)

\* Reading the body of a "..." literal: a backslash takes the next character
\* with it (\n is a newline), an unescaped quote ends the literal
RECURSIVE Unescape(_)
Unescape(text) ==
    IF text = <<>> THEN <<>>
    ELSE IF Head(text) = QUOTE THEN <<>>
    ELSE IF Head(text) = BACKSLASH
    THEN IF Len(text) = 1 THEN <<>>
         ELSE <<IF text[2] = "n" THEN NEWLINE ELSE text[2]>> \o Unescape(Tail(Tail(text)))
    ELSE <<Head(text)>> \o Unescape(Tail(text))

InitEsc ==
    /\ \E name \in DisplayNames : esc = [pc |-> "name", name |-> name]
    /\ etl = Idle /\ csv = Idle /\ walk = Idle /\ twice = Idle /\ slug = Idle /\ pager = Idle /\ pair = Idle

\* generate_allianz_full_dsl.py line 101 and 110: :name "{escape(...)}"
WriteEscaped ==
    /\ esc.pc = "name"
    /\ esc' = [pc |-> "written", name |-> esc.name, literal |-> escape(esc.name)]
    /\ UNCHANGED <<etl, csv, walk, twice, slug, pager, pair>>

\* gleif_extract_allianz.py line 333 and 338: :name "{safe_name}"
WriteSafeName ==
    /\ esc.pc = "name"
    /\ esc' = [pc |-> "written", name |-> esc.name, literal |-> safe_name(esc.name)]
    /\ UNCHANGED <<etl, csv, walk, twice, slug, pager, pair>>

\* generate_allianz_full_dsl.py lines 111, 113, 130, 244 and 246, csv_to_dsl.py
\* lines 316 and 329-334, gleif_extract_allianz.py lines 340-344 and 380: the
\* value is put between the quotes as it is
WriteRaw ==
    /\ esc.pc = "name"
    /\ esc' = [pc |-> "written", name |-> esc.name, literal |-> esc.name]
    /\ UNCHANGED <<etl, csv, walk, twice, slug, pager, pair>>

\* The loader reads the literal back
ReadLiteral ==
    /\ esc.pc = "written"
    /\ esc' = [pc |-> "read", name |-> esc.name, literal |-> esc.literal,
               parsed |-> Unescape(esc.literal)]
    /\ UNCHANGED <<etl, csv, walk, twice, slug, pager, pair>>

NextEsc == WriteEscaped \/ WriteSafeName \/ WriteRaw \/ ReadLiteral

SpecEsc == InitEsc /\ [][NextEsc]_vars

\* C7: un-escaping the string literal written for a display name recovers
\* the name exactly.
EscapeRoundTrips == esc.pc = "read" => esc.parsed = esc.name

\* A quote that no backslash escapes, or a newline, occurs in the text
RECURSIVE RawQuoteOrNewline(_, _)
RawQuoteOrNewline(text, escaped) ==
    IF text = <<>> THEN FALSE
    ELSE IF Head(text) = NEWLINE THEN TRUE
    ELSE IF escaped THEN RawQuoteOrNewline(Tail(text), FALSE)
    ELSE IF Head(text) = QUOTE THEN TRUE
    ELSE RawQuoteOrNewline(Tail(text), Head(text) = BACKSLASH)

\* C15: no string literal written into a command contains a raw double quote
\* or a raw newline.
LiteralsEscaped ==
    esc.pc \in {"written", "read"} => ~RawQuoteOrNewline(esc.literal, FALSE)

----------------------------------------------------------------------------
(* The chain resolvers.  The registry is the environment: it answers each  *)
(* request when it is made.  LEIs are 1, 2, ...; a parent named by the     *)
(* registry is a LEI already visited or the least LEI not yet visited.     *)

\* The number of LEIs the registry knows
MaxWalkLei == 11

\* The number of entities of the registry whose parent is named only by the
\* direct-parent endpoint, not by a relationship record
MaxFallbacks == 2

MaxDepth == 10

StartLei == 1

None == 0

Last(s) == s[Len(s)]

ParentChoices(visited) == 1..Min(Cardinality(visited) + 1, walk.registry)

Info(lei, depth) == [lei |-> lei, ubo_terminus |-> FALSE, depth |-> depth]

\* The parents the direct-parent endpoint may name
FallbackChoices(w) ==
    IF Cardinality({i \in 1..Len(w.requests) :
                       /\ w.requests[i].endpoint = "direct-parent"
                       /\ w.requests[i].answer # None}) < MaxFallbacks
    THEN ParentChoices(w.visited) ELSE {}

Request(endpoint, lei, ok, answer) ==
    [endpoint |-> endpoint, lei |-> lei, ok |-> ok, answer |-> answer]

\* `registry` is the number of LEIs the registry knows; `main` is the position
\* of the caller; `iterations` counts the entries into the loop body; `calls`
\* is the sequence of time.sleep and requests.get calls made so far
InitWalkRun(resolver, registry, main) ==
    [pc |-> "loop", resolver |-> resolver, chain |-> <<>>, current_lei |-> StartLei,
     visited |-> {}, entities |-> EmptyDict, relationships |-> <<>>, depth |-> 0,
     link |-> FALSE, requests |-> <<>>, stdout |-> <<>>,
     registry |-> registry, main |-> main, iterations |-> 0, calls |-> <<>>,
     subsidiaries |-> <<>>, fund_management |-> <<>>, dsl_output |-> <<>>]

\* GLEIFExtractor.fetch: time.sleep(0.3), then requests.get
Fetch == <<"sleep", "get">>

InitWalk ==
    /\ \E resolver \in {"trace_ownership_chain", "trace_parent_chain"} :
           walk = InitWalkRun(resolver, MaxWalkLei, "none")
    /\ etl = Idle /\ csv = Idle /\ esc = Idle /\ twice = Idle /\ slug = Idle /\ pager = Idle /\ pair = Idle

Extractor == walk.resolver = "trace_ownership_chain"

\* The visited-set test left out
AlwaysUnvisited(w) == TRUE

\* current_lei not in visited
Unvisited(w) == w.current_lei \notin w.visited

Tracer == walk.resolver = "trace_parent_chain"

\* The record lookup failed and the walk goes on to the parent lookups
RecordMissingIgnored(w, request) ==
    [w EXCEPT !.visited = @ \cup {w.current_lei},
              !.requests = Append(@, request),
              !.pc = IF w.resolver = "trace_ownership_chain" THEN "relationship" ELSE "parent"]

\* gleif_extract_allianz.py lines 158-160, gleif_allianz_chain.py lines 156-158:
\* no record, the loop is left
RecordMissing(w, request) ==
    [w EXCEPT !.visited = @ \cup {w.current_lei},
              !.requests = Append(@, request),
              !.stdout = Append(@, "Could not fetch"),
              !.pc = "returned"]

\* gleif_extract_allianz.py lines 153-164
\* while current_lei and current_lei not in visited: visited.add; get_lei_record
XFetchRecord ==
    /\ Extractor /\ walk.pc = "loop"
    /\ walk.current_lei # None /\ Unvisited(walk)
    /\ \E ok \in BOOLEAN :
        LET lei == walk.current_lei
            request == Request("lei-records", lei, ok, None)
            info == Info(lei, 0)
            w == [walk EXCEPT !.iterations = @ + 1, !.calls = @ \o Fetch]
        IN  walk' = IF ~ok THEN RecordMissing(w, request)
                    ELSE [w EXCEPT
                            !.visited = @ \cup {lei},
                            !.requests = Append(@, request),
                            !.chain = Append(@, info),
                            !.entities = Put(@, lei, info),
                            !.pc = "relationship"]
    /\ UNCHANGED <<etl, csv, esc, twice, slug, pager, pair>>

\* Line 153: the loop condition fails, line 223 returns the chain
XLoopExit ==
    /\ Extractor /\ walk.pc = "loop"
    /\ walk.current_lei = None \/ ~Unvisited(walk)
    /\ walk' = [walk EXCEPT !.pc = "returned"]
    /\ UNCHANGED <<etl, csv, esc, twice, slug, pager, pair>>

\* Lines 172-197: get_parent_relationship; a record that names a parent is
\* appended to self.relationships and the walk moves to the parent
XParentRelationship ==
    /\ Extractor /\ walk.pc = "relationship"
    /\ \E ok \in BOOLEAN :
       \E parent_lei \in IF ok THEN {None} \cup ParentChoices(walk.visited) ELSE {None} :
        LET request == Request("direct-parent-relationship", walk.current_lei, ok, parent_lei)
            w == [walk EXCEPT !.calls = @ \o Fetch]
        IN  walk' = IF parent_lei # None
                    THEN [w EXCEPT
                            !.requests = Append(@, request),
                            !.relationships =
                                Append(@, [child_lei |-> walk.current_lei,
                                           parent_lei |-> parent_lei]),
                            !.current_lei = parent_lei,
                            !.pc = "loop"]
                    ELSE [w EXCEPT !.requests = Append(@, request),
                                   !.pc = "exception"]
    /\ UNCHANGED <<etl, csv, esc, twice, slug, pager, pair>>

\* The exception record leaves the entity as it was
MarkNothing(w) == w

\* info["ubo_terminus"] = True: info is the dict held by chain and by entities
MarkTerminus(w) ==
    [w EXCEPT !.chain[Len(w.chain)].ubo_terminus = TRUE,
              !.entities[w.current_lei].ubo_terminus = TRUE]

\* Lines 200-208 and 220-221: get_parent_exception
XParentException ==
    /\ Extractor /\ walk.pc = "exception"
    /\ \E ok \in BOOLEAN :
        LET request == Request("direct-parent-reporting-exception", walk.current_lei, ok, None)
            w == [walk EXCEPT !.calls = @ \o Fetch]
        IN  walk' = IF ok
                    THEN [MarkTerminus(w) EXCEPT
                            !.requests = Append(@, request),
                            !.stdout = Append(@, "APEX - No further parents"),
                            !.pc = "returned"]
                    ELSE [w EXCEPT !.requests = Append(@, request),
                                   !.pc = "direct-parent"]
    /\ UNCHANGED <<etl, csv, esc, twice, slug, pager, pair>>

\* Lines 211-221: get_direct_parent; the parent found this way is followed
\* but no relationship is recorded
XDirectParent ==
    /\ Extractor /\ walk.pc = "direct-parent"
    /\ \E ok \in BOOLEAN :
       \E parent_lei \in IF ok THEN {None} \cup FallbackChoices(walk) ELSE {None} :
        LET request == Request("direct-parent", walk.current_lei, ok, parent_lei)
            w == [walk EXCEPT !.calls = @ \o Fetch]
        IN  walk' = IF parent_lei # None
                    THEN [w EXCEPT !.requests = Append(@, request),
                                   !.current_lei = parent_lei,
                                   !.pc = "loop"]
                    ELSE [w EXCEPT !.requests = Append(@, request),
                                   !.stdout = Append(@, "APEX - No further parents"),
                                   !.pc = "returned"]
    /\ UNCHANGED <<etl, csv, esc, twice, slug, pager, pair>>

\* gleif_allianz_chain.py line 148: range(max_depth) is exhausted, line 201
TLoopExit ==
    /\ Tracer /\ walk.pc = "loop" /\ walk.depth >= MaxDepth
    /\ walk' = [walk EXCEPT !.pc = "returned"]
    /\ UNCHANGED <<etl, csv, esc, twice, slug, pager, pair>>

\* Lines 149-151
TCycle ==
    /\ Tracer /\ walk.pc = "loop" /\ walk.depth < MaxDepth
    /\ ~Unvisited(walk)
    /\ walk' = [walk EXCEPT !.iterations = @ + 1,
                             !.stdout = Append(@, "Cycle detected"), !.pc = "returned"]
    /\ UNCHANGED <<etl, csv, esc, twice, slug, pager, pair>>

\* Lines 152-175: fetch_lei_record (requests.get without a sleep); the record
\* may carry a direct-parent link; time.sleep(0.3) follows at line 175
TFetchRecord ==
    /\ Tracer /\ walk.pc = "loop" /\ walk.depth < MaxDepth
    /\ Unvisited(walk)
    /\ \E ok \in BOOLEAN :
       \E direct_parent_link \in IF ok THEN BOOLEAN ELSE {FALSE} :
        LET lei == walk.current_lei
            request == Request("lei-records", lei, ok, None)
            w == [walk EXCEPT !.iterations = @ + 1, !.calls = Append(@, "get")]
        IN  walk' = IF ~ok THEN RecordMissing(w, request)
                    ELSE [w EXCEPT
                            !.visited = @ \cup {lei},
                            !.requests = Append(@, request),
                            !.calls = Append(@, "sleep"),
                            !.chain = Append(@, Info(lei, walk.depth)),
                            !.link = direct_parent_link,
                            !.pc = "parent"]
    /\ UNCHANGED <<etl, csv, esc, twice, slug, pager, pair>>

\* Lines 197-199
Apex(w) == [w EXCEPT !.stdout = Append(@, "No further parents"), !.pc = "returned"]

\* Lines 175-199 without a link: nothing is requested
TNoLink ==
    /\ Tracer /\ walk.pc = "parent" /\ ~walk.link
    /\ walk' = Apex(walk)
    /\ UNCHANGED <<etl, csv, esc, twice, slug, pager, pair>>

\* Lines 177-199: requests.get(direct_parent_link); an exception is caught and
\* printed, any answer but a 200 with another LEI as end node ends the walk
TParent ==
    /\ Tracer /\ walk.pc = "parent" /\ walk.link
    /\ \E outcome \in {"exception", "status", "data"} :
       \E parent_lei \in IF outcome = "data" THEN {None} \cup ParentChoices(walk.visited)
                         ELSE {None} :
        LET request == Request("direct-parent-link", walk.current_lei,
                               outcome = "data", parent_lei)
            w == [walk EXCEPT
                    !.requests = Append(@, request),
                    !.calls = Append(@, "get"),
                    !.stdout = IF outcome = "exception"
                               THEN Append(@, "Error fetching parent") ELSE @]
        IN  walk' = IF parent_lei # None /\ parent_lei # walk.current_lei
                    THEN [w EXCEPT !.current_lei = parent_lei,
                                   !.depth = @ + 1,
                                   !.pc = "loop"]
                    ELSE Apex(w)
    /\ UNCHANGED <<etl, csv, esc, twice, slug, pager, pair>>

NextWalk ==
    \/ XFetchRecord
    \/ XLoopExit
    \/ XParentRelationship
    \/ XParentException
    \/ XDirectParent
    \/ TLoopExit
    \/ TCycle
    \/ TFetchRecord
    \/ TNoLink
    \/ TParent

SpecWalk == InitWalk /\ [][NextWalk]_vars

----------------------------------------------------------------------------
(* gleif_extract_allianz.py: the paginated lookups, get_subsidiary_tree    *)
(* and main, which writes the script from the result of the walk           *)

\* The number of LEIs the registry knows when main runs
MaxExtractLei == 3

\* The number of LEIs the registry may list as direct children of the start
MaxChildren == 2

\* The number of distinct 8-character prefixes among the LEIs
PrefixClasses == 4

\* max_pages of the call at line 230, and of the call at line 278
ChildrenMaxPages == 2

FundsMaxPages == 3

\* Line 281: funds[:20]; line 404: fund_management[:5]
FundPrintCap == 20

FundSampleCap == 5

\* f"@{lei[:8].lower()}": LEIs that are congruent modulo PrefixClasses begin
\* with the same 8 characters
LeiBinding(lei) == <<"@", lei % PrefixClasses>>

ChildLeis == (MaxExtractLei + 1)..(MaxExtractLei + MaxChildren)

FundLeis == {MaxExtractLei + MaxChildren + 1}

\* What fetch returns for one page: None, or data with records and a next link
NoPage == [ok |-> FALSE, records |-> <<>>, next |-> FALSE]

PageAnswers(S) == {NoPage} \cup [ok : {TRUE}, records : SeqsUpTo(S, 1), next : BOOLEAN]

\* A loop that goes on whatever the page holds
NeverLast(data) == FALSE

\* if not data: break; if not records: break; if not links.get("next"): break
LastPage(data) == ~data.ok \/ data.records = <<>> \/ ~data.next

\* Lines 62-87 and 89-113: the pages from `page` on are fetched until one is
\* missing, is empty or has no next link, or max_pages have been fetched
RECURSIVE Paginate(_, _, _)
Paginate(pages, page, max_pages) ==
    IF page > max_pages THEN [all |-> <<>>, fetched |-> 0]
    ELSE LET data == pages[page]
             last == LastPage(data)
             rest == IF last THEN [all |-> <<>>, fetched |-> 0]
                     ELSE Paginate(pages, page + 1, max_pages)
         IN  [all |-> data.records \o rest.all, fetched |-> 1 + rest.fetched]

RECURSIVE Repeat(_, _)
Repeat(s, n) == IF n = 0 THEN <<>> ELSE s \o Repeat(s, n - 1)

\* Lines 233-246: every child becomes a subsidiary, an entry of the entity
\* table and a relationship to the LEI asked for
RECURSIVE AddSubsidiaries(_, _, _)
AddSubsidiaries(w, children, lei) ==
    IF children = <<>> THEN w
    ELSE LET info == Info(Head(children), 1)
         IN  AddSubsidiaries(
                 [w EXCEPT !.subsidiaries = Append(@, info),
                           !.entities = Put(@, info.lei, info),
                           !.relationships =
                               Append(@, [child_lei |-> info.lei, parent_lei |-> lei])],
                 Tail(children), lei)

\* Line 269: get_subsidiary_tree(start_lei, max_depth=1)
XSubsidiaryTree ==
    /\ Extractor /\ walk.pc = "returned" /\ walk.main = "trace"
    /\ \E pages \in [1..ChildrenMaxPages -> PageAnswers(ChildLeis)] :
        LET children == Paginate(pages, 1, ChildrenMaxPages)
        IN  walk' = AddSubsidiaries(
                        [walk EXCEPT !.calls = @ \o Repeat(Fetch, children.fetched),
                                     !.main = "subsidiaries"],
                        children.all, StartLei)
    /\ UNCHANGED <<etl, csv, esc, twice, slug, pager, pair>>

\* Lines 278-289: get_managed_funds(start_lei, max_pages=3); the first 20
\* funds are printed and kept in fund_management
XManagedFunds ==
    /\ Extractor /\ walk.main = "subsidiaries"
    /\ \E pages \in [1..FundsMaxPages -> PageAnswers(FundLeis)] :
        LET funds == Paginate(pages, 1, FundsMaxPages)
        IN  walk' = [walk EXCEPT
                !.calls = @ \o Repeat(Fetch, funds.fetched),
                !.fund_management =
                    [i \in 1..Min(Len(funds.all), FundPrintCap) |->
                        [manco_lei |-> StartLei, fund_lei |-> funds.all[i]]],
                !.main = "funds"]
    /\ UNCHANGED <<etl, csv, esc, twice, slug, pager, pair>>

Reverse(s) == [i \in 1..Len(s) |-> s[Len(s) + 1 - i]]

\* Lines 331-346 and 354-363
LeiEntityCommand(entity) ==
    Cmd("entity.ensure-limited-company", <<>>, LeiBinding(entity.lei), <<>>, entity.lei)

\* Lines 371-381: no test of either binding
OwnershipCommand(rel) ==
    Cmd("cbu.role:assign-ownership", <<>>, NoBinding,
        <<LeiBinding(rel.parent_lei), LeiBinding(rel.child_lei)>>, <<>>)

\* Lines 384-396
TerminusLines(chain) ==
    IF chain # <<>> /\ Last(chain).ubo_terminus
    THEN <<Comment("UBO TERMINUS", 0),
           Cmd("cbu.role:mark-ubo-terminus", <<>>, NoBinding,
               <<LeiBinding(Last(chain).lei)>>, <<>>)>>
    ELSE <<>>

\* Lines 399-408
FundManagementLines(fund_management) ==
    IF fund_management = <<>> THEN <<>>
    ELSE <<Comment("FUND MANAGEMENT (sample)", Len(fund_management))>>
         \o [i \in 1..Min(Len(fund_management), FundSampleCap) |->
                Comment("Fund", fund_management[i].fund_lei)]

\* Lines 319-420: the script
XGenerate ==
    /\ Extractor /\ walk.main = "funds"
    /\ walk' = [walk EXCEPT
           !.dsl_output =
               <<Comment("Generated", Now), Comment("ENTITIES", 0)>>
               \o [i \in 1..Len(walk.chain) |-> LeiEntityCommand(Reverse(walk.chain)[i])]
               \o (IF walk.subsidiaries # <<>> THEN <<Comment("SUBSIDIARIES", 0)>> ELSE <<>>)
               \o [i \in 1..Len(walk.subsidiaries) |-> LeiEntityCommand(walk.subsidiaries[i])]
               \o <<Comment("OWNERSHIP CHAIN", 0)>>
               \o [i \in 1..Len(walk.relationships) |-> OwnershipCommand(walk.relationships[i])]
               \o TerminusLines(walk.chain)
               \o FundManagementLines(walk.fund_management),
           !.main = "generated"]
    /\ UNCHANGED <<etl, csv, esc, twice, slug, pager, pair>>

NextExtract ==
    \/ XFetchRecord
    \/ XLoopExit
    \/ XParentRelationship
    \/ XParentException
    \/ XDirectParent
    \/ XSubsidiaryTree
    \/ XManagedFunds
    \/ XGenerate

InitExtract ==
    /\ walk = InitWalkRun("trace_ownership_chain", MaxExtractLei, "trace")
    /\ etl = Idle /\ csv = Idle /\ esc = Idle /\ twice = Idle /\ slug = Idle /\ pager = Idle /\ pair = Idle

SpecExtract == InitExtract /\ [][NextExtract]_vars

\* main is a sequential program: a step that can be taken is taken
SpecExtractFair == SpecExtract /\ WF_vars(NextExtract)

----------------------------------------------------------------------------
(* get_direct_children and get_managed_funds, one request at a time        *)

\* The pages the registry can answer for one LEI
RegistryPages == 4

\* What the registry answers for page p: nothing, or data with no record or
\* one, the record being numbered after the page
PageAnswer(data, p) == [data EXCEPT !.records = [i \in 1..Len(@) |-> p]]

PageTables ==
    { [p \in 1..RegistryPages |-> PageAnswer(shape[p], p)] :
        shape \in [1..RegistryPages -> PageAnswers({0})] }

InitPager ==
    /\ \E pages \in PageTables :
       \E max_pages \in {ChildrenMaxPages, FundsMaxPages} :
           pager = [pc |-> "loop", pages |-> pages, max_pages |-> max_pages,
                    page |-> 1, all |-> <<>>, requested |-> <<>>]
    /\ etl = Idle /\ csv = Idle /\ walk = Idle /\ esc = Idle /\ twice = Idle /\ slug = Idle /\ pair = Idle

\* Lines 67-85 and 94-111: one pass of the loop body
PagerFetch ==
    /\ pager.pc = "loop" /\ pager.page <= pager.max_pages
    /\ LET data == pager.pages[pager.page]
           fetched == [pager EXCEPT !.requested = Append(@, pager.page)]
       IN  pager' = IF ~data.ok \/ data.records = <<>>
                    THEN [fetched EXCEPT !.pc = "returned"]
                    ELSE IF LastPage(data)
                    THEN [fetched EXCEPT !.all = @ \o data.records, !.pc = "returned"]
                    ELSE [fetched EXCEPT !.all = @ \o data.records, !.page = @ + 1]
    /\ UNCHANGED <<etl, csv, walk, esc, twice, slug, pair>>

\* Line 67: page > max_pages; lines 87 and 113: return
PagerLoopExit ==
    /\ pager.pc = "loop" /\ pager.page > pager.max_pages
    /\ pager' = [pager EXCEPT !.pc = "returned"]
    /\ UNCHANGED <<etl, csv, walk, esc, twice, slug, pair>>

NextPager == PagerFetch \/ PagerLoopExit

SpecPager == InitPager /\ [][NextPager]_vars

\* The loop is a sequential program: a step that can be taken is taken
SpecPagerFair == SpecPager /\ WF_vars(NextPager)

\* The records of the pages 1..n that were answered, in page order
RECURSIVE RecordsOf(_, _)
RecordsOf(pages, n) ==
    IF n = 0 THEN <<>>
    ELSE RecordsOf(pages, n - 1) \o (IF pages[n].ok THEN pages[n].records ELSE <<>>)

\* The requests are for the pages 1, 2, ... in order, never more than
\* max_pages; no page before the last one requested ended the paging; what
\* has been collected is the records of the answered pages among those
\* passed; a call that has returned stopped at an ending page or at
\* max_pages, and returns what Paginate computes
PagerSafe ==
    LET n == Len(pager.requested)
        Ends(p) == ~pager.pages[p].ok \/ pager.pages[p].records = <<>> \/ ~pager.pages[p].next
    IN  /\ pager.requested = [i \in 1..n |-> i]
        /\ n <= pager.max_pages
        /\ \A i \in 1..(n - 1) : ~Ends(i)
        /\ pager.pc = "loop" => pager.page = n + 1 /\ pager.all = RecordsOf(pager.pages, n)
        /\ pager.pc = "returned" =>
               /\ n = pager.max_pages \/ (n > 0 /\ Ends(n))
               /\ pager.all = RecordsOf(pager.pages, n)
               /\ pager.all = Paginate(pager.pages, 1, pager.max_pages).all
               /\ n = Paginate(pager.pages, 1, pager.max_pages).fetched

\* C21: every call of a pagination loop returns, having requested the pages
\* 1, 2, ... in order up to the first page that is missing, is empty or has
\* no next link, at most max_pages of them, and it returns the records of
\* the answered pages in page order.
PaginationTerminates == []PagerSafe /\ <>(pager.pc = "returned")

\* A call that returned the records of two pages, stopped by a failed fetch
\* of the third
StoppedAtFailedPage ==
    /\ pager.pc = "returned"
    /\ pager.requested = <<1, 2, 3>>
    /\ ~pager.pages[3].ok
    /\ pager.all = <<1, 2>>

----------------------------------------------------------------------------
(* Two GLEIFExtractor instances, their walks interleaved                   *)

\* The LEIs of the registry the two walks read
MaxPairLei == 2

Instances == {1, 2}

\* Every instance refers to one record of attributes, whatever the instance
ClassAttributes(self) == 1

\* Lines 24-27: __init__ binds a new dict and two new lists to the instance
InstanceAttributes(self) == self

\* The locals of trace_ownership_chain(start_lei)
InitLocals(start_lei) ==
    [pc |-> "loop", chain |-> <<>>, current_lei |-> start_lei, visited |-> {},
     requests |-> <<>>]

NewAttributes == [entities |-> EmptyDict, relationships |-> <<>>, fund_management |-> <<>>]

\* The walk of an instance sees its locals and the attributes of `self`
Frame(locals, attributes) ==
    [pc |-> locals.pc, chain |-> locals.chain, current_lei |-> locals.current_lei,
     visited |-> locals.visited, requests |-> locals.requests,
     entities |-> attributes.entities, relationships |-> attributes.relationships,
     fund_management |-> attributes.fund_management]

LocalsOf(w) ==
    [pc |-> w.pc, chain |-> w.chain, current_lei |-> w.current_lei,
     visited |-> w.visited, requests |-> w.requests]

AttributesOf(w) ==
    [entities |-> w.entities, relationships |-> w.relationships,
     fund_management |-> w.fund_management]

\* Lines 153-164: the loop test and the record lookup
StepLoop(w) ==
    IF w.current_lei # None /\ w.current_lei \notin w.visited
    THEN { IF ok
           THEN [w EXCEPT !.visited = @ \cup {w.current_lei},
                          !.requests = Append(@, Request("lei-records", w.current_lei, ok, None)),
                          !.chain = Append(@, Info(w.current_lei, 0)),
                          !.entities = Put(@, w.current_lei, Info(w.current_lei, 0)),
                          !.pc = "relationship"]
           ELSE [w EXCEPT !.visited = @ \cup {w.current_lei},
                          !.requests = Append(@, Request("lei-records", w.current_lei, ok, None)),
                          !.pc = "returned"] : ok \in BOOLEAN }
    ELSE { [w EXCEPT !.pc = "returned"] }

\* Lines 172-197
StepRelationship(w) ==
    { IF parent_lei # None
      THEN [w EXCEPT !.requests = Append(@, Request("direct-parent-relationship",
                                                    w.current_lei, TRUE, parent_lei)),
                     !.relationships = Append(@, [child_lei |-> w.current_lei,
                                                  parent_lei |-> parent_lei]),
                     !.current_lei = parent_lei,
                     !.pc = "loop"]
      ELSE [w EXCEPT !.requests = Append(@, Request("direct-parent-relationship",
                                                    w.current_lei, FALSE, None)),
                     !.pc = "exception"] : parent_lei \in {None} \cup (1..MaxPairLei) }

\* Lines 200-208 and 220-221
StepException(w) ==
    { IF ok
      THEN [MarkTerminus(w) EXCEPT
               !.requests = Append(@, Request("direct-parent-reporting-exception",
                                              w.current_lei, ok, None)),
               !.pc = "returned"]
      ELSE [w EXCEPT !.requests = Append(@, Request("direct-parent-reporting-exception",
                                                    w.current_lei, ok, None)),
                     !.pc = "direct-parent"] : ok \in BOOLEAN }

\* Lines 211-221
StepDirectParent(w) ==
    { IF parent_lei # None
      THEN [w EXCEPT !.requests = Append(@, Request("direct-parent", w.current_lei,
                                                    TRUE, parent_lei)),
                     !.current_lei = parent_lei,
                     !.pc = "loop"]
      ELSE [w EXCEPT !.requests = Append(@, Request("direct-parent", w.current_lei,
                                                    FALSE, None)),
                     !.pc = "returned"] : parent_lei \in {None} \cup (1..MaxPairLei) }

\* One step of trace_ownership_chain
Step(w) ==
    CASE w.pc = "loop" -> StepLoop(w)
      [] w.pc = "relationship" -> StepRelationship(w)
      [] w.pc = "exception" -> StepException(w)
      [] w.pc = "direct-parent" -> StepDirectParent(w)
      [] OTHER -> {}

\* extractor = GLEIFExtractor(); extractor.trace_ownership_chain(lei), twice
InitPair ==
    /\ pair = [locals |-> [self \in Instances |-> InitLocals(self)],
               attributes |-> [object \in Instances |-> NewAttributes]]
    /\ etl = Idle /\ csv = Idle /\ walk = Idle /\ esc = Idle /\ twice = Idle
    /\ slug = Idle /\ pager = Idle

\* One instance takes one step of its walk
PairStep ==
    /\ \E self \in Instances :
       \E w \in Step(Frame(pair.locals[self], pair.attributes[InstanceAttributes(self)])) :
           pair' = [pair EXCEPT !.locals[self] = LocalsOf(w),
                                !.attributes[InstanceAttributes(self)] = AttributesOf(w)]
    /\ UNCHANGED <<etl, csv, walk, esc, twice, slug, pager>>

NextPair == PairStep

SpecPair == InitPair /\ [][NextPair]_vars

----------------------------------------------------------------------------
(* Properties of the chain resolvers                                       *)

Returned == walk.pc = "returned"

ChainLeis == [i \in 1..Len(walk.chain) |-> walk.chain[i].lei]

NoDuplicates(seq) == \A i, j \in 1..Len(seq) : seq[i] = seq[j] => i = j

\* The LEIs the walk was led through: the start, then every parent named
RECURSIVE Answers(_)
Answers(requests) ==
    IF requests = <<>> THEN <<>>
    ELSE (IF Head(requests).answer # None THEN <<Head(requests).answer>> ELSE <<>>)
         \o Answers(Tail(requests))

Path == <<StartLei>> \o Answers(walk.requests)

\* The walk ended because the parent named last had been visited before
CycleHit ==
    /\ Returned /\ walk.requests # <<>>
    /\ Last(walk.requests).answer # None
    /\ \E i \in 1..(Len(Path) - 1) : Path[i] = Last(Path)

EntityLookups == {"lei-records"}

ParentLookups ==
    {"direct-parent-relationship", "direct-parent-reporting-exception",
     "direct-parent", "direct-parent-link"}

\* C4: when the parents lead back to a LEI of the walk, the chain returned is
\* the path up to, not including, the repeated LEI, each once, nothing is
\* fetched after the repeat is found, and a cycle diagnostic is reported.
CycleStopsWithDiagnostic ==
    CycleHit =>
        /\ ChainLeis = SubSeq(Path, 1, Len(Path) - 1)
        /\ NoDuplicates(ChainLeis)
        /\ \E i \in 1..Len(walk.stdout) : walk.stdout[i] = "Cycle detected"

RECURSIVE Resolved(_)
Resolved(requests) ==
    IF requests = <<>> THEN <<>>
    ELSE (IF Head(requests).endpoint \in EntityLookups /\ Head(requests).ok
          THEN <<Head(requests).lei>> ELSE <<>>) \o Resolved(Tail(requests))

DepthBounded ==
    /\ Len(walk.chain) <= MaxDepth
    /\ Cardinality(walk.visited) <= MaxDepth

\* The identifiers the walk has reached: those visited and the current one
Reached == walk.visited \cup (IF walk.current_lei = None THEN {} ELSE {walk.current_lei})

\* The identifiers whose entity record was asked for, in order
RECURSIVE RecordLookups(_)
RecordLookups(requests) ==
    IF requests = <<>> THEN <<>>
    ELSE (IF Head(requests).endpoint \in EntityLookups
          THEN <<Head(requests).lei>> ELSE <<>>) \o RecordLookups(Tail(requests))

\* C18 as stated: the entity record of an identifier is asked for at most
\* once, the chain holds no identifier twice, and the loop body is entered at
\* most as often as there are distinct identifiers reached.
IterationsWithinReached ==
    /\ NoDuplicates(RecordLookups(walk.requests))
    /\ NoDuplicates(ChainLeis)
    /\ walk.iterations <= Cardinality(Reached)

\* C18 as amended: the entity record of an identifier is asked for at most
\* once and the chain holds no identifier twice; every entry into the loop
\* body asks for one record, except that trace_parent_chain enters the body
\* once more, without any request, when it finds the current identifier
\* visited; so the entries number at most the distinct identifiers reached,
\* plus one for trace_parent_chain.
OneLookupPerIdentifier ==
    /\ NoDuplicates(RecordLookups(walk.requests))
    /\ NoDuplicates(ChainLeis)
    /\ walk.iterations <= Cardinality(Reached) + (IF Tracer THEN 1 ELSE 0)
    /\ walk.iterations =
           Len(RecordLookups(walk.requests))
           + (IF Tracer /\ \E i \in 1..Len(walk.stdout) : walk.stdout[i] = "Cycle detected"
              THEN 1 ELSE 0)

\* A walk led back to an identifier it had visited, stopped by the test
\* with two entities in its chain
RevisitStopped ==
    /\ Returned /\ CycleHit
    /\ Len(walk.chain) >= 2
    /\ walk.iterations >= Cardinality(Reached)

\* The positions of the chain whose entity is marked as terminus
Marked == {i \in 1..Len(walk.chain) : walk.chain[i].ubo_terminus}

\* The registry returned a parent-reporting-exception record for the LEI
ExceptionReturned(lei) ==
    \E j \in 1..Len(walk.requests) :
        /\ walk.requests[j].endpoint = "direct-parent-reporting-exception"
        /\ walk.requests[j].ok
        /\ walk.requests[j].lei = lei

TerminusIndices ==
    {i \in 1..Len(walk.dsl_output) : IsCmd(walk.dsl_output[i], "cbu.role:mark-ubo-terminus")}

\* C19: an entity of the chain is marked terminus exactly when the registry
\* returned an exception record for it; the exception record is the last
\* request of the walk, so the walk has returned, the marked entity is the
\* last of the chain and no other is marked; a walk that ended otherwise marks
\* none; the script marks that entity, once, and nothing else.
TerminusOnlyAtException ==
    /\ \A i \in 1..Len(walk.chain) : i \in Marked <=> ExceptionReturned(walk.chain[i].lei)
    /\ \A i \in Marked :
           /\ i = Len(walk.chain)
           /\ Returned
           /\ Last(walk.requests).endpoint = "direct-parent-reporting-exception"
           /\ Last(walk.requests).ok
           /\ Last(walk.requests).lei = walk.chain[i].lei
    /\ Cardinality(Marked) <= 1
    /\ walk.main = "generated" =>
           /\ Cardinality(TerminusIndices) = Cardinality(Marked)
           /\ \A i \in TerminusIndices :
                  walk.dsl_output[i].refs = <<LeiBinding(Last(walk.chain).lei)>>

\* A script that marks the second entity of the chain, the exception record
\* having ended the walk there
ApexMarked ==
    /\ walk.main = "generated"
    /\ Len(walk.chain) >= 2
    /\ Marked = {Len(walk.chain)}
    /\ TerminusIndices # {}

\* C20: between any two successive requests of a walk there is a sleep; no
\* two requests are made back to back.
SleepBetweenRequests ==
    \A i \in 1..(Len(walk.calls) - 1) :
        ~(walk.calls[i] = "get" /\ walk.calls[i + 1] = "get")

----------------------------------------------------------------------------
(* Properties of the extractor's relationship list and script              *)

\* The requests whose answer names the entity asked about as its own parent
SelfParentAnswers ==
    {i \in 1..Len(walk.requests) : walk.requests[i].answer = walk.requests[i].lei}

OwnershipIndices ==
    {i \in 1..Len(walk.dsl_output) : IsCmd(walk.dsl_output[i], "cbu.role:assign-ownership")}

\* C11: no relationship of the list and no ownership command of the script
\* has the same child and parent, and a registry answer naming an entity as
\* its own parent leaves a diagnostic for the dropped edge.
SelfLoopsDropped ==
    /\ \A i \in 1..Len(walk.relationships) :
           walk.relationships[i].child_lei # walk.relationships[i].parent_lei
    /\ \A i \in OwnershipIndices :
           walk.dsl_output[i].refs[1] # walk.dsl_output[i].refs[2]
    /\ SelfParentAnswers # {} =>
           \E j \in 1..Len(walk.stdout) : walk.stdout[j] = "self-loop dropped"

\* The bindings the script's entity commands bind
EmittedBindings ==
    {walk.dsl_output[j].as : j \in {k \in 1..Len(walk.dsl_output) :
                                      IsCmd(walk.dsl_output[k], "entity.ensure-limited-company")}}

\* C12: every ownership command of the extractor's script references only
\* bindings of entities the script emits, whatever the outcome of the walk.
OwnershipRefsEmitted ==
    walk.main = "generated" =>
        \A i \in OwnershipIndices :
            \A r \in Range(walk.dsl_output[i].refs) : r \in EmittedBindings

\* C26: when the extractor's walk has returned, every two consecutive
\* entities of the chain are linked by a relationship of the list, child
\* first, and the generated script holds an ownership command for the link.
ChainLinked ==
    Extractor /\ Returned =>
        \A i \in 1..(Len(walk.chain) - 1) :
            /\ \E j \in 1..Len(walk.relationships) :
                   /\ walk.relationships[j].child_lei = walk.chain[i].lei
                   /\ walk.relationships[j].parent_lei = walk.chain[i + 1].lei
            /\ walk.main = "generated" =>
                   \E j \in OwnershipIndices :
                       walk.dsl_output[j].refs = <<LeiBinding(walk.chain[i + 1].lei),
                                                   LeiBinding(walk.chain[i].lei)>>

\* Every entry into the loop body has added one identifier of the registry
\* to the visited set
VisitedGrows ==
    /\ walk.iterations = Cardinality(walk.visited)
    /\ walk.visited \subseteq 1..walk.registry
    /\ walk.iterations <= walk.registry

\* C27: trace_ownership_chain returns on every registry of finitely many
\* identifiers, whatever the parents named and whatever lookups fail, after
\* at most as many loop iterations as the registry has identifiers.
WalkTerminates == []VisitedGrows /\ <>Returned

\* A walk that visited every identifier of the registry and was led back to
\* one of them
WholeRegistryVisited ==
    /\ Returned /\ CycleHit
    /\ walk.visited = 1..walk.registry
    /\ walk.iterations = walk.registry

----------------------------------------------------------------------------
(* csv_to_dsl.py: sanitize_var_name and generate_dsl                       *)

IsAlnum(c) == c \in Range(LowerCase) \cup Range(UpperCase) \cup Range(Digits)

\* re.sub(r"[^a-zA-Z0-9]+", "_", s)
RECURSIVE SubNonAlnumAnyCase(_, _)
SubNonAlnumAnyCase(s, inRun) ==
    IF s = <<>> THEN <<>>
    ELSE IF IsAlnum(Head(s)) THEN <<Head(s)>> \o SubNonAlnumAnyCase(Tail(s), FALSE)
    ELSE IF inRun THEN SubNonAlnumAnyCase(Tail(s), TRUE)
    ELSE <<"_">> \o SubNonAlnumAnyCase(Tail(s), TRUE)

\* re.sub(r"_+", "_", s)
RECURSIVE CollapseUnderscores(_)
CollapseUnderscores(s) ==
    IF Len(s) < 2 THEN s
    ELSE IF s[1] = "_" /\ s[2] = "_" THEN CollapseUnderscores(Tail(s))
    ELSE <<Head(s)>> \o CollapseUnderscores(Tail(s))

SanitizeMaxLen == 50

sanitize_var_name(name) ==
    LET clean == Strip(CollapseUnderscores(SubNonAlnumAnyCase(Lower(name), FALSE)), {"_"})
    IN  SubSeq(clean, 1, Min(Len(clean), SanitizeMaxLen))

\* The most rows of an export file
MaxRows == 3

EUR == <<"E","U","R">>
USD == <<"U","S","D">>

SubfundNames == {<<"A"," ","b">>, <<"a","-","b">>, <<"C">>}

Rows == [fund_name : SubfundNames, currency : {EUR, USD}, is_hedged : BOOLEAN]

\* The ShareClass list of an export: the i-th row carries the i-th ISIN
ShareClassesOf(rows) ==
    [i \in 1..Len(rows) |->
        [fund_name |-> rows[i].fund_name, currency |-> rows[i].currency,
         is_hedged |-> rows[i].is_hedged, isin |-> IsinStr(i),
         share_class_name |-> rows[i].fund_name \o <<" ","-"," ","A">>]]

CsvInputs == {ShareClassesOf(rows) : rows \in SeqsUpTo(Rows, MaxRows)}

\* An export with one sub-fund of more share classes than the cap of the
\* full ETL generator, after one share class of another sub-fund
LongExport ==
    ShareClassesOf([i \in 1..(ShareClassCap + 2) |->
        [fund_name |-> IF i = 1 THEN <<"a","-","b">> ELSE <<"C">>,
         currency |-> EUR, is_hedged |-> FALSE]])

\* PYTHONHASHSEED decides the order in which a set of str is iterated
HashSeeds == {0, 1}

\* Iterating a set of strings under a hash seed
RECURSIVE IterateSet(_, _)
IterateSet(S, seed) ==
    IF S = {} THEN <<>>
    ELSE LET x == CHOOSE x \in S :
                    \A y \in S : IF seed = 0 THEN PolyHash(x, 7) <= PolyHash(y, 7)
                                 ELSE PolyHash(x, 7) >= PolyHash(y, 7)
         IN  <<x>> \o IterateSet(S \ {x}, seed)

InitCsvRun(share_classes, seed) ==
    [pc |-> "start", share_classes |-> share_classes, hash_seed |-> seed,
     subfunds |-> <<>>, lines |-> <<>>, i |-> 0]

\* The sub-fund names in the order a set of them is iterated
SubfundsInSetOrder(share_classes) ==
    IterateSet({share_classes[i].fund_name : i \in 1..Len(share_classes)}, csv.hash_seed)

\* Lines 287-288: the positions at which `sc.fund_name not in subfunds` holds
NewKeys(share_classes) ==
    {i \in 1..Len(share_classes) :
        \A j \in 1..(i - 1) : share_classes[j].fund_name # share_classes[i].fund_name}

\* The names at the positions, by increasing position
RECURSIVE NamesAt(_, _)
NamesAt(share_classes, positions) ==
    IF positions = {} THEN <<>>
    ELSE LET i == CHOOSE i \in positions : \A j \in positions : i <= j
         IN  <<share_classes[i].fund_name>> \o NamesAt(share_classes, positions \ {i})

\* Lines 285-289: the keys of the dict `subfunds`, in insertion order
SubfundsInOrder(share_classes) == NamesAt(share_classes, NewKeys(share_classes))

\* subfunds[name]
ShareClassesIn(share_classes, name) ==
    SelectSeq(share_classes, LAMBDA sc : sc.fund_name = name)

Occurrences(seq, x) == Cardinality({i \in 1..Len(seq) : seq[i] = x})

\* Lines 310-313: max(set(currencies), key=currencies.count), "EUR" for none
BaseCurrency(scs, seed) ==
    LET currencies == [i \in 1..Len(SelectSeq(scs, LAMBDA sc : ~sc.is_hedged)) |->
                          SelectSeq(scs, LAMBDA sc : ~sc.is_hedged)[i].currency]
        order == IterateSet(Range(currencies), seed)
        best == CHOOSE i \in 1..Len(order) :
                   /\ \A j \in 1..Len(order) :
                        Occurrences(currencies, order[j]) <= Occurrences(currencies, order[i])
                   /\ \A j \in 1..(i - 1) :
                        Occurrences(currencies, order[j]) < Occurrences(currencies, order[i])
    IN  IF currencies = <<>> THEN EUR ELSE order[best]

CsvCmd(verb, name, binding, refs, key, currency) ==
    [kind |-> "cmd", verb |-> verb, name |-> name, as |-> binding,
     refs |-> refs, key |-> key, n |-> 0, currency |-> currency]

CsvComment(text, n) ==
    [kind |-> "comment", verb |-> text, name |-> <<>>, as |-> NoBinding,
     refs |-> <<>>, key |-> <<>>, n |-> n, currency |-> <<>>]

\* Lines 285-303: grouping and the header
CsvGroup ==
    /\ csv.pc = "start"
    /\ LET subfunds == SubfundsInOrder(csv.share_classes)
       IN  csv' = [csv EXCEPT
               !.subfunds = subfunds,
               !.lines = <<CsvComment("Sub-funds", Len(subfunds)),
                           CsvComment("Share classes", Len(csv.share_classes))>>,
               !.pc = "subfunds", !.i = 1]
    /\ UNCHANGED <<etl, walk, esc, twice, slug, pager, pair>>

\* Lines 325-336
ShareClassLines(scs, var_name) ==
    [i \in 1..Len(scs) |->
        CsvCmd("fund.create-share-class", scs[i].share_class_name,
               <<"s","c","_">> \o sanitize_var_name(scs[i].isin),
               <<<<"s","f","_">> \o var_name>>, scs[i].isin, scs[i].currency)]

\* Lines 306-338: one sub-fund and its share classes
CsvSubfund ==
    /\ csv.pc = "subfunds" /\ csv.i <= Len(csv.subfunds)
    /\ LET subfund_name == csv.subfunds[csv.i]
           scs == ShareClassesIn(csv.share_classes, subfund_name)
           var_name == sanitize_var_name(subfund_name)
       IN  csv' = [csv EXCEPT
               !.lines = @ \o <<CsvComment("Sub-fund", Len(scs)),
                                CsvCmd("fund.create-subfund", subfund_name,
                                       <<"s","f","_">> \o var_name, <<>>, <<>>,
                                       BaseCurrency(scs, csv.hash_seed))>>
                           \o ShareClassLines(scs, var_name),
               !.i = @ + 1]
    /\ UNCHANGED <<etl, walk, esc, twice, slug, pager, pair>>

\* Lines 341-347
CsvSummary ==
    /\ csv.pc = "subfunds" /\ csv.i > Len(csv.subfunds)
    /\ csv' = [csv EXCEPT
           !.lines = @ \o <<CsvComment("SUMMARY sub-funds", Len(csv.subfunds)),
                            CsvComment("SUMMARY share classes", Len(csv.share_classes))>>,
           !.pc = "done"]
    /\ UNCHANGED <<etl, walk, esc, twice, slug, pager, pair>>

NextCsv == CsvGroup \/ CsvSubfund \/ CsvSummary

InitCsv ==
    /\ \E share_classes \in CsvInputs \cup {LongExport}, seed \in HashSeeds :
           csv = InitCsvRun(share_classes, seed)
    /\ etl = Idle /\ walk = Idle /\ esc = Idle /\ twice = Idle /\ slug = Idle /\ pager = Idle /\ pair = Idle

SpecCsv == InitCsv /\ [][NextCsv]_vars

----------------------------------------------------------------------------
(* The same input compiled twice, by two runs of a generator               *)

TwiceGleifFiles ==
    {NoGleif} \cup
    { [present |-> TRUE, ownership_chain |-> c, subsidiaries |-> s, relationships |-> r] :
        c \in SeqsUpTo(Entities, 1),
        s \in SeqsUpTo(Entities, 1),
        r \in SeqsUpTo(Relationships, 1) }

TwiceEtlInputs ==
    { <<g, <<>> >> : g \in TwiceGleifFiles } \cup
    { <<g, <<f>> >> : g \in {NoGleif, DefaultGleif}, f \in FundsWith({0}) }

FirstRun == [pc |-> "first", first |-> <<>>]

InitTwice ==
    /\ \/ /\ \E input \in TwiceEtlInputs : etl = InitEtlRun(input)
          /\ csv = Idle
       \/ /\ \E share_classes \in CsvInputs, seed \in HashSeeds :
                 csv = InitCsvRun(share_classes, seed)
          /\ etl = Idle
    /\ twice = FirstRun
    /\ walk = Idle /\ esc = Idle /\ slug = Idle /\ pager = Idle /\ pair = Idle

\* The full ETL generator is started again on the files it has just read
RerunEtl ==
    /\ twice.pc = "first" /\ etl.pc = "done"
    /\ twice' = [pc |-> "second", first |-> etl.lines]
    /\ etl' = InitEtlRun(<<etl.gleif, etl.funds>>)
    /\ UNCHANGED <<csv, walk, esc, slug, pager, pair>>

\* generate_dsl is run again, in a new process, on the same share classes
RerunCsv ==
    /\ twice.pc = "first" /\ csv.pc = "done"
    /\ twice' = [pc |-> "second", first |-> csv.lines]
    /\ \E seed \in HashSeeds : csv' = InitCsvRun(csv.share_classes, seed)
    /\ UNCHANGED <<etl, walk, esc, slug, pager, pair>>

NextTwice == NextEtl \/ NextCsv \/ RerunEtl \/ RerunCsv

SpecTwice == InitTwice /\ [][NextTwice]_vars

\* The commands of a script, in order: verb, binding and referenced bindings
Skeleton(lines) ==
    LET cmds == SelectSeq(lines, LAMBDA item : item.kind = "cmd")
    IN  [i \in 1..Len(cmds) |-> <<cmds[i].verb, cmds[i].as, cmds[i].refs>>]

\* C3: two compilations of the same input give the same sequence of commands
\* with the same bindings, whatever the time of the run and the hash seed of
\* the process.
SameCommandsTwice ==
    twice.pc = "second" =>
        /\ etl.pc = "done" => Skeleton(etl.lines) = Skeleton(twice.first)
        /\ csv.pc = "done" => Skeleton(csv.lines) = Skeleton(twice.first)

\* Two runs over several sub-funds whose scripts are not the same text
SecondRunDiffersInText ==
    /\ twice.pc = "second" /\ csv.pc = "done"
    /\ Len(csv.subfunds) >= 2
    /\ csv.lines # twice.first

----------------------------------------------------------------------------
(* Properties of the scripts generate_dsl writes                           *)

CsvDone == csv.pc = "done"

SubfundIndices(lines) == {i \in 1..Len(lines) : IsCmd(lines[i], "fund.create-subfund")}

\* The position of the k-th sub-fund command, the end of the script for
\* k beyond the last
SubfundStart(lines, k) ==
    IF k > Cardinality(SubfundIndices(lines)) THEN Len(lines) + 1
    ELSE CHOOSE i \in SubfundIndices(lines) :
             Cardinality({j \in SubfundIndices(lines) : j < i}) = k - 1

\* The share-class commands written between the k-th sub-fund command and
\* the next
SubfundShareClasses(lines, k) ==
    SelectSeq(SubSeq(lines, SubfundStart(lines, k) + 1, SubfundStart(lines, k + 1) - 1),
              LAMBDA item : IsCmd(item, "fund.create-share-class"))

\* Their ISINs, in order
ShareClassIsins(lines, k) ==
    [i \in 1..Len(SubfundShareClasses(lines, k)) |-> SubfundShareClasses(lines, k)[i].key]

\* The comments that follow the last command of the script
Footer(lines) ==
    LET last == CHOOSE i \in 0..Len(lines) :
                    /\ i > 0 => lines[i].kind = "cmd"
                    /\ \A j \in (i + 1)..Len(lines) : lines[j].kind # "cmd"
    IN  SubSeq(lines, last + 1, Len(lines))

\* C22: of a sub-fund with more share classes than the cap, generate_dsl
\* writes exactly the first ShareClassCap, in input order, and its summary
\* footer records the number left out; a sub-fund within the cap is written
\* whole.
CsvShareClassCap ==
    CsvDone =>
        \A k \in 1..Len(csv.subfunds) :
            LET scs == ShareClassesIn(csv.share_classes, csv.subfunds[k])
                kept == Min(Len(scs), ShareClassCap)
                written == ShareClassIsins(csv.lines, k)
            IN  /\ written = [i \in 1..kept |-> scs[i].isin]
                /\ Len(scs) > ShareClassCap =>
                       \E j \in 1..Len(Footer(csv.lines)) :
                           /\ Footer(csv.lines)[j].verb = "truncated"
                           /\ Footer(csv.lines)[j].n = Len(scs) - ShareClassCap

----------------------------------------------------------------------------
(* Properties of two extractors at work at the same time                   *)

\* What a walk that made these requests alone has in its relationship list
RECURSIVE RelationshipsOf(_)
RelationshipsOf(requests) ==
    IF requests = <<>> THEN <<>>
    ELSE (IF Head(requests).endpoint = "direct-parent-relationship"
             /\ Head(requests).answer # None
          THEN <<[child_lei |-> Head(requests).lei, parent_lei |-> Head(requests).answer]>>
          ELSE <<>>) \o RelationshipsOf(Tail(requests))

\* What it has in its entity table: the elements of its chain, by LEI
EntitiesOf(chain) == [lei \in {chain[i].lei : i \in 1..Len(chain)} |->
                         chain[CHOOSE i \in 1..Len(chain) : chain[i].lei = lei]]

\* C25: whatever the interleaving of two walks on two instances, the entity
\* table and the relationship list of each instance are those of its own
\* walk alone: the entities of its own chain and the relationships its own
\* lookups found; its fund_management is untouched.
InstancesIsolated ==
    \A self \in Instances :
        LET mine == pair.attributes[self]
            locals == pair.locals[self]
        IN  /\ mine.entities = EntitiesOf(locals.chain)
            /\ mine.relationships = RelationshipsOf(locals.requests)
            /\ mine.fund_management = <<>>

\* Both walks have returned, each with an entity and a relationship of its
\* own, after steps of the two were interleaved
BothReturned ==
    /\ \A self \in Instances :
           /\ pair.locals[self].pc = "returned"
           /\ pair.attributes[self].relationships # <<>>
    /\ pair.attributes[1].entities # pair.attributes[2].entities

\* C29: the base currency written for a sub-fund is the most frequent
\* currency of its share classes that are not hedged, EUR when it has none,
\* and a second run on the same share classes writes the same base currency
\* for every sub-fund, ties included.
BaseCurrencyDeterministic ==
    /\ CsvDone =>
           \A k \in 1..Len(csv.subfunds) :
               LET scs == ShareClassesIn(csv.share_classes, csv.subfunds[k])
                   open == SelectSeq(scs, LAMBDA sc : ~sc.is_hedged)
                   currencies == [i \in 1..Len(open) |-> open[i].currency]
                   written == csv.lines[SubfundStart(csv.lines, k)].currency
               IN  IF open = <<>> THEN written = EUR
                   ELSE \A c \in Range(currencies) :
                            Occurrences(currencies, c) <= Occurrences(currencies, written)
    /\ twice.pc = "second" /\ CsvDone =>
           \A i \in SubfundIndices(csv.lines) : csv.lines[i].currency = twice.first[i].currency

\* The position in the input of the first share class of the sub-fund
FirstOccurrence(share_classes, name) ==
    CHOOSE i \in 1..Len(share_classes) :
        /\ share_classes[i].fund_name = name
        /\ \A j \in 1..(i - 1) : share_classes[j].fund_name # name

CsvSummaryCount(lines, title) ==
    LET i == CHOOSE i \in (Len(lines) - 1)..Len(lines) : lines[i].verb = title
    IN  lines[i].n

\* C30: the finished script holds one sub-fund command per distinct fund
\* name, in order of first occurrence; after each, and before the next, one
\* share-class command per share class of that sub-fund, in input order,
\* referencing the binding of that sub-fund command; no other share-class
\* command; and the summary counts are the numbers of the two kinds of
\* command.
SubfundBlocks ==
    CsvDone =>
        LET names == {csv.share_classes[i].fund_name : i \in 1..Len(csv.share_classes)}
            count == Cardinality(SubfundIndices(csv.lines))
            Name(k) == csv.lines[SubfundStart(csv.lines, k)].name
        IN  /\ count = Cardinality(names)
            /\ {Name(k) : k \in 1..count} = names
            /\ \A k, l \in 1..count :
                   k < l => FirstOccurrence(csv.share_classes, Name(k))
                              < FirstOccurrence(csv.share_classes, Name(l))
            /\ \A k \in 1..count :
                   LET mine == SelectSeq(csv.share_classes, LAMBDA sc : sc.fund_name = Name(k))
                   IN  /\ ShareClassIsins(csv.lines, k) = [i \in 1..Len(mine) |-> mine[i].isin]
                       /\ \A i \in 1..Len(SubfundShareClasses(csv.lines, k)) :
                              SubfundShareClasses(csv.lines, k)[i].refs
                                  = <<csv.lines[SubfundStart(csv.lines, k)].as>>
            /\ Cardinality({i \in 1..Len(csv.lines) :
                               IsCmd(csv.lines[i], "fund.create-share-class")})
                 = Len(csv.share_classes)
            /\ CsvSummaryCount(csv.lines, "SUMMARY sub-funds") = count
            /\ CsvSummaryCount(csv.lines, "SUMMARY share classes") = Len(csv.share_classes)

\* A finished script for two sub-funds whose share classes alternate in the
\* input
InterleavedSubfunds ==
    /\ CsvDone
    /\ Len(csv.share_classes) = 3
    /\ csv.share_classes[1].fund_name = csv.share_classes[3].fund_name
    /\ csv.share_classes[1].fund_name # csv.share_classes[2].fund_name
    /\ Cardinality(SubfundIndices(csv.lines)) = 2

====
